---- MODULE Spec2Model ----
(***************************************************************************)
(* Image pixel shuffler and colour shifter (src/main.py).                  *)
(*                                                                         *)
(* Three specifications over one set of variables:                        *)
(*   Spec      the Tk application: its handlers as atomic actions;         *)
(*   SpecCore  the transform functions applied one after another to a     *)
(*             buffer drawn from a bounded set of inputs;                 *)
(*   SpecPar   two calls of a handler's pipeline on two threads, one step *)
(*             per call into the `random` module.                         *)
(* All three share `rng`, the state of the module-global generator of     *)
(* Python's `random` (random.seed / random.randint / random.shuffle).     *)
(*                                                                         *)
(* Python lists are sequences: list[i] is seq[i + 1].                      *)
(***************************************************************************)
EXTENDS Integers, Sequences, FiniteSets, TLC

VARIABLES
    rng,              \* state of the global generator of module `random`
    \* ---- the application (PixelShufflerApp)
    image,            \* self.image: None or [size, data]
    processed_image,  \* self.processed_image
    password_entry,   \* text of self.password_entry
    color_shift_var,  \* self.color_shift_var
    called,           \* the handler (or widget edit) that ran last
    dialog,           \* the message box the last handler showed ("" : none)
    stages,           \* the functions the last handler called, in order
    loaded,           \* the image as it was when load_image produced it
    log,              \* the Encrypt/Decrypt requests that ran since the load
    produced,         \* size of the buffer the last shuffle_pixels(reverse=False) returned
    \* ---- the transform functions on their own
    cin,              \* the input buffer
    cbuf,             \* the buffer after the operations applied so far
    cprev,            \* the buffer the last operation was given
    cops,             \* the operations applied, in order
    \* ---- two threads
    threads           \* thread id -> the thread's locals

vars == <<rng, image, processed_image, password_entry, color_shift_var, called, dialog,
          stages, loaded, log, produced, cin, cbuf, cprev, cops, threads>>

appVars == <<image, processed_image, password_entry, color_shift_var, called, dialog,
             stages, loaded, log, produced>>
coreVars == <<cin, cbuf, cprev, cops>>

\* Python's None, where an image is expected
None == [none |-> TRUE]
\* no size recorded yet
NoSize == <<>>

(***************************************************************************)
(* Bounds of the model.                                                    *)
(***************************************************************************)
MaxPixels == 3      \* images have at most this many pixels
MaxOps == 2         \* SpecCore applies at most this many operations
MaxCalls == 2       \* Spec runs at most this many Encrypt/Decrypt per loaded image
ParPixels == 2      \* SpecPar: the threads' images have at most this many pixels

(***************************************************************************)
(* Program constants.                                                      *)
(***************************************************************************)
ChannelMod == 256   \* (r + shift_r) % 256
ShiftMax == 255     \* random.randint(0, 255)

(***************************************************************************)
(* The generator.  CPython's Mersenne Twister is replaced by a full-period *)
(* 16-bit linear congruential generator; what is kept is the interface    *)
(* the program relies on: seed() overwrites the whole state, every        *)
(* getrandbits() advances it, and _randbelow / shuffle consume it exactly  *)
(* as Lib/random.py does (rejection sampling, Fisher-Yates from the top). *)
(***************************************************************************)
WordBits == 16
Modulus == 65536
Multiplier == 25173
Increment == 13849

\* int.bit_length()
RECURSIVE bit_length(_)
bit_length(n) == IF n = 0 THEN 0 ELSE 1 + bit_length(n \div 2)

\* random.seed(a): the state becomes a function of a alone.
random_seed(a) == ((a % Modulus) * 75 + 74) % Modulus

\* random.getrandbits(k): one step of the generator, its top k bits.
getrandbits(k, g) ==
    LET g2 == (Multiplier * g + Increment) % Modulus
    IN  [value |-> g2 \div (2 ^ (WordBits - k)), rng |-> g2]

\* Random._randbelow_with_getrandbits(n): r = getrandbits(k); while r >= n: again
RECURSIVE randbelow_loop(_, _, _)
randbelow_loop(n, k, g) ==
    LET r == getrandbits(k, g)
    IN  IF r.value >= n THEN randbelow_loop(n, k, r.rng) ELSE r

\* k = n.bit_length(), then the loop
randbelow(n, g) == randbelow_loop(n, bit_length(n), g)

\* random.randint(a, b) = a + _randbelow(b - a + 1)
randint(a, b, g) ==
    LET r == randbelow(b - a + 1, g)
    IN  [value |-> a + r.value, rng |-> r.rng]

\* Swap with the two assignments made one after the other: x[i] = x[j]; x[j] = x[i]
Swap_sequential(x, i, j) == [x EXCEPT ![i + 1] = x[j + 1]]

\* x[i], x[j] = x[j], x[i]   (0-based i, j)
Swap(x, i, j) == [x EXCEPT ![i + 1] = x[j + 1], ![j + 1] = x[i + 1]]

\* random.shuffle(x): for i in reversed(range(1, len(x))): j = randbelow(i + 1); swap
RECURSIVE shuffle_loop(_, _, _)
shuffle_loop(x, i, g) ==
    IF i < 1 THEN [list |-> x, rng |-> g]
    ELSE LET j == randbelow(i + 1, g)
         IN  shuffle_loop(Swap(x, i, j.value), i - 1, j.rng)

random_shuffle(x, g) == shuffle_loop(x, Len(x) - 1, g)

\* list(range(n))
Range(n) == [k \in 1..n |-> k - 1]

(***************************************************************************)
(* generate_seed.  password.encode() is UTF-8 (here: code points below    *)
(* 2048); SHA-256 is replaced by a 16-bit multiplicative hash of the      *)
(* bytes, read as an unsigned integer.                                     *)
(***************************************************************************)
RECURSIVE encode(_)
encode(password) ==
    IF password = <<>> THEN <<>>
    ELSE LET c == Head(password)
         IN  (IF c < 128 THEN <<c>> ELSE <<192 + (c \div 64), 128 + (c % 64)>>)
             \o encode(Tail(password))

RECURSIVE digest(_, _)
digest(bytes, h) ==
    IF bytes = <<>> THEN h
    ELSE digest(Tail(bytes), (h * 33 + Head(bytes)) % Modulus)

DigestInit == 5381

generate_seed(password) == digest(encode(password), DigestInit)

(***************************************************************************)
(* shift_colors                                                            *)
(***************************************************************************)
\* shift_channel that adds in both directions
shift_channel_always_adds(c, shift, reverse) == (c + shift) % ChannelMod

\* shift_channel without the reduction modulo 256
shift_channel_no_wrap(c, shift, reverse) == IF reverse THEN c - shift ELSE c + shift

\* r = (r - shift_r) % 256   /   r = (r + shift_r) % 256
shift_channel(c, shift, reverse) ==
    IF reverse THEN (c - shift) % ChannelMod ELSE (c + shift) % ChannelMod

\* the body of `for r, g, b in pixels:`, from pixel i on (1-based)
RECURSIVE shift_loop(_, _, _, _, _)
shift_loop(pixels, i, reverse, shifted_pixels, g) ==
    IF i > Len(pixels) THEN [pixels |-> shifted_pixels, rng |-> g]
    ELSE LET shift_r == randint(0, ShiftMax, g)
             shift_g == randint(0, ShiftMax, shift_r.rng)
             shift_b == randint(0, ShiftMax, shift_g.rng)
             p == pixels[i]
             q == <<shift_channel(p[1], shift_r.value, reverse),
                    shift_channel(p[2], shift_g.value, reverse),
                    shift_channel(p[3], shift_b.value, reverse)>>
         IN  shift_loop(pixels, i + 1, reverse, Append(shifted_pixels, q), shift_b.rng)

\* shift_colors without its random.seed(seed): it draws from the generator as it finds it
shift_colors_not_seeded(pixels, seed, reverse, g) ==
    shift_loop(pixels, 1, reverse, <<>>, g)

\* shift_colors(pixels, seed, reverse) run with the global generator in state g:
\* the pixels it returns and the state it leaves the generator in.
shift_colors(pixels, seed, reverse, g) ==
    shift_loop(pixels, 1, reverse, <<>>, random_seed(seed))

(***************************************************************************)
(* Images: [size |-> <<width, height>>, data |-> the pixels, row-major].   *)
(***************************************************************************)
Black == <<0, 0, 0>>

\* Image.new(mode, (width, height)): width * height black pixels
image_new(size) == [size |-> size, data |-> [k \in 1..(size[1] * size[2]) |-> Black]]

\* image.putdata(data): the leading pixels are overwritten, in order
putdata(img, data) ==
    [img EXCEPT !.data = [k \in 1..Len(img.data) |->
                            IF k <= Len(data) THEN data[k] ELSE img.data[k]]]

\* image.thumbnail((500, 500)): an image within 500 x 500 is left as it is.  Every
\* image of the model is that small; the resampling of a larger one is not modelled
\* (the other branch is never taken).
ThumbnailSize == 500
thumbnail(img) ==
    IF img.size[1] <= ThumbnailSize /\ img.size[2] <= ThumbnailSize THEN img
    ELSE [size |-> <<0, 0>>, data |-> <<>>]

(***************************************************************************)
(* shuffle_pixels                                                          *)
(***************************************************************************)
\* indices = list(range(total_pixels)); random.seed(seed); random.shuffle(indices)
drawn_indices(total_pixels, seed) ==
    random_shuffle(Range(total_pixels), random_seed(seed))

\* for i, shuffled_index in enumerate(indices): reverse_indices[shuffled_index] = i
RECURSIVE invert_loop(_, _, _)
invert_loop(indices, i, reverse_indices) ==
    IF i >= Len(indices) THEN reverse_indices
    ELSE invert_loop(indices, i + 1,
                     [reverse_indices EXCEPT ![indices[i + 1] + 1] = i])

\* invert that hands back the drawn indices: the reverse branch permutes as the
\* forward one does
invert_not_inverted(indices) == indices

\* reverse_indices = [0] * total_pixels, then the loop
invert(indices) == invert_loop(indices, 0, [k \in 1..Len(indices) |-> 0])

\* shuffle_pixels creating the new image as Image.new(mode, (height, width))
shuffle_pixels_transposed(img, seed, reverse, g) ==
    LET pixels == img.data
        total_pixels == Len(pixels)
        drawn == drawn_indices(total_pixels, seed)
        indices == IF reverse THEN invert(drawn.list) ELSE drawn.list
        shuffled_pixels == [k \in 1..total_pixels |-> pixels[indices[k] + 1]]
    IN  [image |-> putdata(image_new(<<img.size[2], img.size[1]>>), shuffled_pixels),
         rng |-> drawn.rng]

\* shuffle_pixels(image, seed, reverse) run with the global generator in state g:
\* the new image it returns and the state it leaves the generator in.
shuffle_pixels(img, seed, reverse, g) ==
    LET pixels == img.data
        total_pixels == Len(pixels)
        drawn == drawn_indices(total_pixels, seed)
        indices == IF reverse THEN invert(drawn.list) ELSE drawn.list
        shuffled_pixels == [k \in 1..total_pixels |-> pixels[indices[k] + 1]]
    IN  [image |-> putdata(image_new(img.size), shuffled_pixels), rng |-> drawn.rng]

(***************************************************************************)
(* The pipelines of encrypt_image and decrypt_image, after their guards:   *)
(*   image   self.image when the handler returns                          *)
(*   result  the image handed to display_image                            *)
(*   rng     the generator's state when the handler returns               *)
(*   stages  the functions called, in order                               *)
(***************************************************************************)
encrypt_pipeline(img, password, color_shift, g) ==
    LET seed == generate_seed(password)
        shifted == shift_colors(img.data, seed, FALSE, g)
        img2 == IF color_shift THEN putdata(img, shifted.pixels) ELSE img
        g2 == IF color_shift THEN shifted.rng ELSE g
        encrypted == shuffle_pixels(img2, seed, FALSE, g2)
    IN  [image |-> img2,
         result |-> encrypted.image,
         rng |-> encrypted.rng,
         stages |-> <<"generate_seed">>
                    \o (IF color_shift THEN <<"shift_colors">> ELSE <<>>)
                    \o <<"shuffle_pixels">>]

decrypt_pipeline(img, password, color_shift, g) ==
    LET seed == generate_seed(password)
        unshuffled == shuffle_pixels(img, seed, TRUE, g)
        unshifted == shift_colors(unshuffled.image.data, seed, TRUE, unshuffled.rng)
    IN  [image |-> img,
         result |-> IF color_shift THEN putdata(unshuffled.image, unshifted.pixels)
                    ELSE unshuffled.image,
         rng |-> IF color_shift THEN unshifted.rng ELSE unshuffled.rng,
         stages |-> <<"generate_seed", "shuffle_pixels">>
                    \o (IF color_shift THEN <<"shift_colors">> ELSE <<>>)]

(***************************************************************************)
(* Inputs.                                                                 *)
(***************************************************************************)
\* what the password entry can hold (code points): nothing, "k", "é"
Passwords == {<<>>, <<107>>, <<233>>}

\* pixel values the input images are made of
PixelValues == {<<0, 0, 0>>, <<255, 128, 7>>}

Sizes == {<<0, 0>>} \cup {s \in (1..MaxPixels) \X (1..MaxPixels) : s[1] * s[2] <= MaxPixels}

Images == UNION {{[size |-> s, data |-> d] : d \in [1..(s[1] * s[2]) -> PixelValues]}
                 : s \in Sizes}

\* states the generator can be in when the program starts (seeded from the OS)
InitialGenerators == {0, 40961}

\* the image files (and URLs) the user can pick: already decoded, RGB
Files == {[size |-> <<1, 1>>, data |-> <<<<255, 128, 7>>>>],
          [size |-> <<2, 1>>, data |-> <<<<0, 0, 0>>, <<255, 128, 7>>>>],
          [size |-> <<1, 3>>, data |-> <<<<10, 20, 30>>, <<0, 0, 0>>, <<255, 128, 7>>>>]}

(***************************************************************************)
(* The application.  Each handler is one action.  The unused variables of  *)
(* the other specifications stay as Init left them.                        *)
(***************************************************************************)
AppInit ==
    /\ image = None
    /\ processed_image = None
    /\ password_entry = <<>>
    /\ color_shift_var = TRUE
    /\ called = "__init__"
    /\ dialog = ""
    /\ stages = <<>>
    /\ loaded = None
    /\ log = <<>>
    /\ produced = NoSize

Idle == /\ cin = None /\ cbuf = None /\ cprev = None /\ cops = <<>>
        /\ threads = <<>>

Init == /\ rng \in InitialGenerators
        /\ AppInit
        /\ Idle

\* display_image(image) called from a handler on image `img`.  After a load,
\* self.processed_image is the very object self.image; encrypt_image's putdata then
\* changes both, and display_image rebinds processed_image before the handler returns.
display_image(img) == processed_image' = thumbnail(img)

\* the user edits the password entry
type_password ==
    /\ \E pw \in Passwords : pw # password_entry /\ password_entry' = pw
    /\ called' = "password_entry"
    /\ dialog' = "" /\ stages' = <<>>
    /\ UNCHANGED <<rng, image, processed_image, color_shift_var, loaded, log, produced>>
    /\ UNCHANGED <<coreVars, threads>>

\* the user clicks the "Enable Color Shifting" checkbox
toggle_color_shift ==
    /\ color_shift_var' = ~color_shift_var
    /\ called' = "color_shift_checkbox"
    /\ dialog' = "" /\ stages' = <<>>
    /\ UNCHANGED <<rng, image, processed_image, password_entry, loaded, log, produced>>
    /\ UNCHANGED <<coreVars, threads>>

\* load_image: file_path is "" when the file dialog is cancelled (second disjunct; a
\* file Image.open cannot read raises out of the handler and changes nothing either)
load_image ==
    /\ called' = "load_image"
    /\ dialog' = ""
    /\ \/ \E file \in Files :
             /\ image' = thumbnail(file)
             /\ display_image(file)
             /\ loaded' = thumbnail(file)
             /\ log' = <<>>
             /\ stages' = <<"display_image">>
       \/ /\ stages' = <<>>
          /\ UNCHANGED <<image, processed_image, loaded, log>>
    /\ UNCHANGED <<rng, password_entry, color_shift_var, produced>>
    /\ UNCHANGED <<coreVars, threads>>

\* load_from_url: no URL given; the request or the decoding raises; or an image arrives
load_from_url ==
    /\ called' = "load_from_url"
    /\ \/ /\ dialog' = "" /\ stages' = <<>>
          /\ UNCHANGED <<image, processed_image, loaded, log>>
       \/ /\ dialog' = "Failed to load image from URL" /\ stages' = <<>>
          /\ UNCHANGED <<image, processed_image, loaded, log>>
       \/ \E response \in Files :
             /\ dialog' = ""
             /\ image' = thumbnail(response)
             /\ display_image(response)
             /\ loaded' = thumbnail(response)
             /\ log' = <<>>
             /\ stages' = <<"display_image">>
    /\ UNCHANGED <<rng, password_entry, color_shift_var, produced>>
    /\ UNCHANGED <<coreVars, threads>>

Request(op) == [op |-> op, password |-> password_entry, color_shift |-> color_shift_var]

\* encrypt_image without its `if not password` guard
encrypt_image_no_password_check ==
    /\ called' = "encrypt_image"
    /\ IF image = None
       THEN /\ dialog' = "No image loaded!" /\ stages' = <<>>
            /\ UNCHANGED <<rng, image, processed_image, log, produced>>
       ELSE /\ Len(log) < MaxCalls
            /\ LET r == encrypt_pipeline(image, password_entry, color_shift_var, rng)
               IN  /\ image' = r.image
                   /\ rng' = r.rng
                   /\ display_image(r.result)
                   /\ stages' = r.stages \o <<"display_image">>
                   /\ produced' = r.result.size
            /\ dialog' = ""
            /\ log' = Append(log, Request("Encrypt"))
    /\ UNCHANGED <<password_entry, color_shift_var, loaded>>
    /\ UNCHANGED <<coreVars, threads>>

encrypt_image ==
    /\ called' = "encrypt_image"
    /\ IF image = None
       THEN /\ dialog' = "No image loaded!" /\ stages' = <<>>
            /\ UNCHANGED <<rng, image, processed_image, log, produced>>
       ELSE IF password_entry = <<>>
       THEN /\ dialog' = "Password is required!" /\ stages' = <<>>
            /\ UNCHANGED <<rng, image, processed_image, log, produced>>
       ELSE /\ Len(log) < MaxCalls
            /\ LET r == encrypt_pipeline(image, password_entry, color_shift_var, rng)
               IN  /\ image' = r.image
                   /\ rng' = r.rng
                   /\ display_image(r.result)
                   /\ stages' = r.stages \o <<"display_image">>
                   /\ produced' = r.result.size
            /\ dialog' = ""
            /\ log' = Append(log, Request("Encrypt"))
    /\ UNCHANGED <<password_entry, color_shift_var, loaded>>
    /\ UNCHANGED <<coreVars, threads>>

decrypt_image ==
    /\ called' = "decrypt_image"
    /\ IF image = None
       THEN /\ dialog' = "No image loaded!" /\ stages' = <<>>
            /\ UNCHANGED <<rng, image, processed_image, log>>
       ELSE IF password_entry = <<>>
       THEN /\ dialog' = "Password is required!" /\ stages' = <<>>
            /\ UNCHANGED <<rng, image, processed_image, log>>
       ELSE /\ Len(log) < MaxCalls
            /\ LET r == decrypt_pipeline(image, password_entry, color_shift_var, rng)
               IN  /\ image' = r.image
                   /\ rng' = r.rng
                   /\ display_image(r.result)
                   /\ stages' = r.stages \o <<"display_image">>
            /\ dialog' = ""
            /\ log' = Append(log, Request("Decrypt"))
    /\ UNCHANGED <<password_entry, color_shift_var, loaded, produced>>
    /\ UNCHANGED <<coreVars, threads>>

\* save_image: the file it writes lies outside the state; file_path is "" when the
\* file dialog is cancelled
save_image ==
    /\ called' = "save_image"
    /\ IF processed_image = None
       THEN dialog' = "No image to save!" /\ stages' = <<>>
       ELSE \E file_path \in {"", "out.png"} :
               IF file_path # ""
               THEN dialog' = "Saved" /\ stages' = <<"save">>
               ELSE dialog' = "" /\ stages' = <<>>
    /\ UNCHANGED <<rng, image, processed_image, password_entry, color_shift_var,
                   loaded, log, produced>>
    /\ UNCHANGED <<coreVars, threads>>

Next ==
    \/ type_password
    \/ toggle_color_shift
    \/ load_image
    \/ load_from_url
    \/ encrypt_image
    \/ decrypt_image
    \/ save_image

Spec == Init /\ [][Next]_vars

(***************************************************************************)
(* The transform functions on their own: a buffer drawn from Images, and   *)
(* up to MaxOps operations applied to it one after another, each with a    *)
(* password (and, for the pipelines, a colour-shift setting) of its own.   *)
(* apply_shift / reverse_shift are shift_colors with the putdata that      *)
(* follows it in the handlers; shuffle / unshuffle are shuffle_pixels.     *)
(***************************************************************************)
CorePasswords == Passwords \ {<<>>}

Op(name, password, color_shift) ==
    [name |-> name, password |-> password, color_shift |-> color_shift]

\* shift_colors on the image's pixels and the putdata that follows it in the handlers
shift_stage(img, seed, reverse, g) ==
    LET r == shift_colors(img.data, seed, reverse, g)
    IN  [image |-> putdata(img, r.pixels), rng |-> r.rng]

\* the image a handler's pipeline hands to display_image, and the generator after it
Handed(r) == [image |-> r.result, rng |-> r.rng]

\* the buffer operation `op` returns on `img`, and the generator's state after it,
\* when the generator is in state g at the call
Apply(op, img, g) ==
    CASE op.name = "apply_shift" -> shift_stage(img, generate_seed(op.password), FALSE, g)
      [] op.name = "reverse_shift" -> shift_stage(img, generate_seed(op.password), TRUE, g)
      [] op.name = "shuffle" -> shuffle_pixels(img, generate_seed(op.password), FALSE, g)
      [] op.name = "unshuffle" -> shuffle_pixels(img, generate_seed(op.password), TRUE, g)
      [] op.name = "Encrypt" ->
            Handed(encrypt_pipeline(img, op.password, op.color_shift, g))
      [] op.name = "Decrypt" ->
            Handed(decrypt_pipeline(img, op.password, op.color_shift, g))

CoreInit ==
    /\ rng \in InitialGenerators
    /\ cin \in Images
    /\ cbuf = cin
    /\ cprev = cin
    /\ cops = <<>>
    /\ AppInit
    /\ threads = <<>>

\* operation `op` is applied to the buffer and returns r
CoreStep(op, r) ==
    /\ cbuf' = r.image
    /\ rng' = r.rng
    /\ cprev' = cbuf
    /\ cops' = Append(cops, op)
    /\ UNCHANGED <<cin, appVars, threads>>

apply_shift ==
    /\ Len(cops) < MaxOps
    /\ \E pw \in CorePasswords :
          CoreStep(Op("apply_shift", pw, TRUE),
                   shift_stage(cbuf, generate_seed(pw), FALSE, rng))

reverse_shift ==
    /\ Len(cops) < MaxOps
    /\ \E pw \in CorePasswords :
          CoreStep(Op("reverse_shift", pw, TRUE),
                   shift_stage(cbuf, generate_seed(pw), TRUE, rng))

shuffle ==
    /\ Len(cops) < MaxOps
    /\ \E pw \in CorePasswords :
          CoreStep(Op("shuffle", pw, FALSE),
                   shuffle_pixels(cbuf, generate_seed(pw), FALSE, rng))

unshuffle ==
    /\ Len(cops) < MaxOps
    /\ \E pw \in CorePasswords :
          CoreStep(Op("unshuffle", pw, FALSE),
                   shuffle_pixels(cbuf, generate_seed(pw), TRUE, rng))

Encrypt ==
    /\ Len(cops) < MaxOps
    /\ \E pw \in CorePasswords, s \in BOOLEAN :
          CoreStep(Op("Encrypt", pw, s), Handed(encrypt_pipeline(cbuf, pw, s, rng)))

Decrypt ==
    /\ Len(cops) < MaxOps
    /\ \E pw \in CorePasswords, s \in BOOLEAN :
          CoreStep(Op("Decrypt", pw, s), Handed(decrypt_pipeline(cbuf, pw, s, rng)))

CoreNext ==
    \/ apply_shift
    \/ reverse_shift
    \/ shuffle
    \/ unshuffle
    \/ Encrypt
    \/ Decrypt

SpecCore == CoreInit /\ [][CoreNext]_vars

(***************************************************************************)
(* Two threads.  Each runs the pipeline of encrypt_image or decrypt_image  *)
(* on an image and a password of its own; the generator of module `random` *)
(* is the one object they share.  A step is one call into the generator:   *)
(* random.seed at the head of a stage, or one getrandbits inside randint   *)
(* or shuffle (the interpreter can switch threads between any two).        *)
(* A thread's locals:                                                      *)
(*   op, password, color_shift, input   what it was called with           *)
(*   img             the image it works on (self.image, then the new one)  *)
(*   todo            the stages still to run, the current one first        *)
(*   pc              "call": about to enter Head(todo); "draw": inside it  *)
(*   i               shift_colors: the pixel being shifted (1-based);      *)
(*                   shuffle: the index i of random.shuffle's loop         *)
(*   shifts          the shifts drawn so far for pixel i                   *)
(*   acc             shifted_pixels, or the list being shuffled            *)
(***************************************************************************)
Threads == {1, 2}

ParImages == {f \in Files : Len(f.data) <= ParPixels}

Pipeline(op, color_shift) ==
    IF op = "Encrypt"
    THEN (IF color_shift THEN <<"shift_colors">> ELSE <<>>) \o <<"shuffle_pixels">>
    ELSE <<"shuffle_pixels">> \o (IF color_shift THEN <<"shift_colors">> ELSE <<>>)

ThreadStart(op, password, color_shift, img) ==
    [op |-> op, password |-> password, color_shift |-> color_shift, input |-> img,
     img |-> img, todo |-> Pipeline(op, color_shift), pc |-> "call",
     i |-> 0, shifts |-> <<>>, acc |-> <<>>]

ParInit ==
    /\ rng \in InitialGenerators
    /\ threads \in [Threads -> {ThreadStart(op, pw, s, img) :
                                  op \in {"Encrypt", "Decrypt"}, pw \in CorePasswords,
                                  s \in BOOLEAN, img \in ParImages}]
    /\ AppInit
    /\ cin = None /\ cbuf = None /\ cprev = None /\ cops = <<>>

\* the stage at the head of todo returns: the thread goes on to the next one
Return(th, img) ==
    [th EXCEPT !.img = img, !.todo = Tail(th.todo),
               !.pc = IF Tail(th.todo) = <<>> THEN "done" ELSE "call",
               !.i = 0, !.shifts = <<>>, !.acc = <<>>]

\* shift_colors returns shifted_pixels; the handler puts them into the image
ReturnShift(th, shifted_pixels) == Return(th, putdata(th.img, shifted_pixels))

\* shuffle_pixels, from `if reverse:` to its return, with the indices drawn
ReturnShuffle(th, drawn) ==
    LET pixels == th.img.data
        indices == IF th.op = "Decrypt" THEN invert(drawn) ELSE drawn
        shuffled_pixels == [k \in 1..Len(pixels) |-> pixels[indices[k] + 1]]
    IN  Return(th, putdata(image_new(th.img.size), shuffled_pixels))

\* shift_colors: random.seed(seed); shifted_pixels = []
seed_shift(t) ==
    LET th == threads[t]
    IN  /\ th.pc = "call" /\ Head(th.todo) = "shift_colors"
        /\ rng' = random_seed(generate_seed(th.password))
        /\ threads' = [threads EXCEPT ![t] =
              IF Len(th.img.data) = 0 THEN ReturnShift(th, <<>>)
              ELSE [th EXCEPT !.pc = "draw", !.i = 1, !.shifts = <<>>, !.acc = <<>>]]
        /\ UNCHANGED <<appVars, coreVars>>

\* shift_colors: one getrandbits(9) of a random.randint(0, 255)
draw_shift(t) ==
    LET th == threads[t]
        r == getrandbits(bit_length(ShiftMax + 1), rng)
        shifts == Append(th.shifts, r.value)
        p == th.img.data[th.i]
        reverse == th.op = "Decrypt"
        q == <<shift_channel(p[1], shifts[1], reverse),
               shift_channel(p[2], shifts[2], reverse),
               shift_channel(p[3], shifts[3], reverse)>>
        shifted_pixels == Append(th.acc, q)
    IN  /\ th.pc = "draw" /\ Head(th.todo) = "shift_colors"
        /\ rng' = r.rng
        /\ threads' = [threads EXCEPT ![t] =
              IF r.value >= ShiftMax + 1 THEN th
              ELSE IF Len(shifts) < 3 THEN [th EXCEPT !.shifts = shifts]
              ELSE IF th.i < Len(th.img.data)
                   THEN [th EXCEPT !.i = th.i + 1, !.shifts = <<>>, !.acc = shifted_pixels]
              ELSE ReturnShift(th, shifted_pixels)]
        /\ UNCHANGED <<appVars, coreVars>>

\* shuffle_pixels: random.seed(seed); indices = list(range(total_pixels))
seed_shuffle(t) ==
    LET th == threads[t]
        total_pixels == Len(th.img.data)
    IN  /\ th.pc = "call" /\ Head(th.todo) = "shuffle_pixels"
        /\ rng' = random_seed(generate_seed(th.password))
        /\ threads' = [threads EXCEPT ![t] =
              IF total_pixels - 1 < 1 THEN ReturnShuffle(th, Range(total_pixels))
              ELSE [th EXCEPT !.pc = "draw", !.i = total_pixels - 1,
                              !.acc = Range(total_pixels)]]
        /\ UNCHANGED <<appVars, coreVars>>

\* shuffle_pixels: one getrandbits of random.shuffle's randbelow(i + 1)
draw_shuffle(t) ==
    LET th == threads[t]
        r == getrandbits(bit_length(th.i + 1), rng)
        x == Swap(th.acc, th.i, r.value)
    IN  /\ th.pc = "draw" /\ Head(th.todo) = "shuffle_pixels"
        /\ rng' = r.rng
        /\ threads' = [threads EXCEPT ![t] =
              IF r.value >= th.i + 1 THEN th
              ELSE IF th.i - 1 >= 1 THEN [th EXCEPT !.i = th.i - 1, !.acc = x]
              ELSE ReturnShuffle(th, x)]
        /\ UNCHANGED <<appVars, coreVars>>

ParNext ==
    \E t \in Threads :
       \/ seed_shift(t)
       \/ draw_shift(t)
       \/ seed_shuffle(t)
       \/ draw_shuffle(t)

SpecPar == ParInit /\ [][ParNext]_vars

\* what the thread's call returns when nothing else runs
Alone(th) ==
    IF th.op = "Encrypt"
    THEN encrypt_pipeline(th.input, th.password, th.color_shift, 0).result
    ELSE decrypt_pipeline(th.input, th.password, th.color_shift, 0).result

\* C7 as claimed: parallel safety.  Under every interleaving of the two threads' steps,
\* a call that has returned has produced the result it produces when run alone.
C7_ParallelSafe ==
    \A t \in Threads : threads[t].pc = "done" => threads[t].img = Alone(threads[t])

(***************************************************************************)
(* Properties of the transform functions (checked under SpecCore).         *)
(***************************************************************************)
Last(seq) == seq[Len(seq)]

\* the history is exactly `first` then `second`, with one password and one setting
Pair(first, second) ==
    /\ Len(cops) = 2
    /\ cops[1].name = first
    /\ cops[2].name = second
    /\ cops[1].password = cops[2].password
    /\ cops[1].color_shift = cops[2].color_shift

\* C1: round-trip identity.  Decrypt applied to what Encrypt returned, with the same
\* password and the same colour-shift setting, gives back the input buffer exactly
\* (every pixel count of the model, 0 and 1 included).
C1_RoundTrip == Pair("Encrypt", "Decrypt") => cbuf = cin

\* C1's case: a three-pixel buffer encrypted with shifting into something else, and
\* decrypted back.
C1_Witness ==
    /\ Pair("Encrypt", "Decrypt")
    /\ cops[1].color_shift
    /\ Len(cin.data) = 3
    /\ cprev # cin
    /\ cbuf = cin

IsPermutation(indices, n) ==
    /\ Len(indices) = n
    /\ \A v \in 0..(n - 1) : Cardinality({k \in 1..n : indices[k] = v}) = 1

\* seeds the permutation is examined for: those of the passwords, and a few small ones
ProbeSeeds == {generate_seed(pw) : pw \in Passwords} \cup (0..7)

\* C2: permutation bijectivity.  For the buffer's pixel count N and every probed seed,
\* the indices shuffle_pixels draws hold each of 0..N-1 exactly once, the reverse
\* mapping satisfies reverse_indices[indices[i]] = i, and unshuffle after shuffle with
\* the same seed gives back the input buffer.
C2_PermutationBijective ==
    /\ \A seed \in ProbeSeeds :
          LET n == Len(cbuf.data)
              indices == drawn_indices(n, seed).list
              reverse_indices == invert(indices)
          IN  /\ IsPermutation(indices, n)
              /\ \A i \in 0..(n - 1) : reverse_indices[indices[i + 1] + 1] = i
    /\ Pair("shuffle", "unshuffle") => cbuf = cin

\* C2's case: a three-pixel buffer moved by a permutation that is not its own inverse,
\* and moved back.
C2_Witness ==
    /\ Pair("shuffle", "unshuffle")
    /\ Len(cin.data) = 3
    /\ cprev # cin
    /\ LET indices == drawn_indices(3, generate_seed(cops[1].password)).list
       IN  invert(indices) # indices
    /\ cbuf = cin

Channels == 0..(ChannelMod - 1)

\* C3: shift bijectivity.  ((c + s) mod 256 - s) mod 256 = c for every channel value c
\* and shift s in 0..255 (evaluated once per input, before any operation), and
\* reverse_shift after apply_shift with the same seed gives back the input pixels.
C3_ShiftBijective ==
    /\ cops = <<>> =>
          \A c \in Channels, s \in 0..ShiftMax :
             shift_channel(shift_channel(c, s, FALSE), s, TRUE) = c
    /\ Pair("apply_shift", "reverse_shift") => cbuf = cin

\* C3's case: pixels shifted, with a channel that wrapped around 256, and shifted back.
C3_Witness ==
    /\ Pair("apply_shift", "reverse_shift")
    /\ Len(cin.data) >= 2
    /\ \E k \in 1..Len(cin.data), ch \in 1..3 : cprev.data[k][ch] < cin.data[k][ch]
    /\ cbuf = cin

WellShaped(img, size) ==
    /\ img.size = size
    /\ Len(img.data) = size[1] * size[2]
    /\ \A k \in 1..Len(img.data) :
          /\ Len(img.data[k]) = 3
          /\ \A ch \in 1..3 : img.data[k][ch] \in Channels

\* how often each pixel value occurs in a buffer
PixelBag(data) ==
    [p \in {data[k] : k \in 1..Len(data)} |-> Cardinality({k \in 1..Len(data) : data[k] = p})]

\* C4: shape invariant.  Whatever operations were applied, with whatever passwords and
\* settings, the buffer keeps the input's width, height and pixel count, and every
\* channel is in 0..255; shuffle and unshuffle return the pixel values they were given,
\* each as often as before.
C4_ShapeInvariant ==
    /\ WellShaped(cbuf, cin.size)
    /\ (cops # <<>> /\ Last(cops).name \in {"shuffle", "unshuffle"}) =>
          PixelBag(cbuf.data) = PixelBag(cprev.data)

\* C4's case: a buffer encrypted with shifting and decrypted with another password.
C4_Witness ==
    /\ Len(cops) = 2
    /\ cops[1].name = "Encrypt" /\ cops[1].color_shift
    /\ cops[2].name = "Decrypt" /\ cops[2].color_shift
    /\ cops[1].password # cops[2].password
    /\ Len(cin.data) = 3
    /\ cbuf # cin

\* C8: history-independent determinism.  What the last operation returned is what it
\* returns on the same buffer, password and setting from any other state of the
\* generator: nothing an earlier operation left behind reaches its output.
C8_HistoryIndependent ==
    cops # <<>> =>
       \A g \in InitialGenerators : Apply(Last(cops), cprev, g).image = cbuf

\* C8's case: an encryption with shifting run after an operation under another password.
C8_Witness ==
    /\ Len(cops) = 2
    /\ cops[1].password # cops[2].password
    /\ cops[2].name = "Encrypt" /\ cops[2].color_shift
    /\ Len(cin.data) >= 2
    /\ cbuf # cprev

(***************************************************************************)
(* Properties of the application (checked under Spec).                     *)
(***************************************************************************)
\* C5: empty-password rejection.  An Encrypt or Decrypt request made while the password
\* entry is empty calls neither generate_seed nor a transform, shows a warning, and
\* leaves the loaded image, the processed image and the generator as they were.
C5_EmptyPasswordRejected ==
    [][((encrypt_image \/ decrypt_image) /\ password_entry = <<>>) =>
          /\ stages' = <<>>
          /\ dialog' \in {"No image loaded!", "Password is required!"}
          /\ UNCHANGED <<rng, image, processed_image>>]_vars

\* C5's case: Encrypt or Decrypt was requested on a loaded image with no password.
C5_Witness ==
    /\ called \in {"encrypt_image", "decrypt_image"}
    /\ image # None
    /\ password_entry = <<>>
    /\ dialog = "Password is required!"

\* Decrypt is requested, passes its guards, and the loaded image's size differs from
\* the size of what the last encryption's shuffle produced
MismatchedDecrypt ==
    /\ decrypt_image
    /\ image # None
    /\ password_entry # <<>>
    /\ produced # NoSize
    /\ image.size # produced

\* C6 as claimed: shape-mismatch rejection.  Decrypting a buffer whose pixel count or
\* size differs from what shuffle produced fails with ShapeMismatch, before any
\* permutation is applied, and returns no transformed buffer.
C6_ShapeMismatchRejected ==
    [][MismatchedDecrypt =>
          /\ dialog' = "ShapeMismatch"
          /\ stages' = <<>>
          /\ processed_image' = processed_image]_vars

\* C6 as amended: no shape is validated.  Decrypting such a buffer raises nothing:
\* shuffle_pixels draws the permutation for the given buffer's own pixel count and
\* the result has the given buffer's width, height and pixel count.
C6_MismatchNotDetected ==
    [][MismatchedDecrypt =>
          /\ dialog' = ""
          /\ \E k \in 1..Len(stages') : stages'[k] = "shuffle_pixels"
          /\ WellShaped(processed_image', image.size)]_vars

\* C6's case: a decryption ran on an image of another size than the last encryption's.
C6_Witness ==
    /\ called = "decrypt_image"
    /\ stages # <<>>
    /\ dialog = ""
    /\ produced # NoSize
    /\ image.size # produced
    /\ processed_image.size = image.size

\* C9 as claimed: side-effect freedom.  Encrypt and Decrypt leave the pixel data of the
\* image they are given (self.image) unchanged.
C9_InputUnchanged ==
    [][(encrypt_image \/ decrypt_image) => image' = image]_vars

\* C10 as claimed: in-session round trip.  After a load, Encrypt and then Decrypt with
\* the same password and colour-shift setting leave the processed image equal to the
\* image that was loaded.
C10_InSessionRoundTrip ==
    (/\ Len(log) = 2
     /\ log[1].op = "Encrypt" /\ log[2].op = "Decrypt"
     /\ log[1].password = log[2].password
     /\ log[1].color_shift = log[2].color_shift)
    => processed_image = loaded

====
